---- MODULE Spec2Model ----
(***************************************************************************)
(* Authentication chain, claims-token (JWT) and anonymous clients, and the *)
(* post-authentication organization sync hooks of codenow-grafana.         *)
(*                                                                         *)
(*   SpecChain      : client registration and the chain's Authenticate     *)
(*   SpecSync       : one run of OrgSync.SyncOrgRolesHook                  *)
(*   SpecResync     : repeated runs of OrgSync.SyncOrgRolesHook            *)
(*   SpecDefaultOrg : one run of OrgSync.SetDefaultOrgHook                 *)
(*   SpecRequest    : SyncOrgRolesHook, then SetDefaultOrgHook              *)
(*   SpecRoles      : JWT.extractRolesAndAdmin                             *)
(*   SpecAnonymous  : Anonymous.Authenticate and Anonymous.ResolveIdentity *)
(*   SpecJWT        : JWT.Test and JWT.Authenticate called on their own    *)
(***************************************************************************)
EXTENDS Integers, Sequences, FiniteSets, TLC

VARIABLES
    \* ---- authentication chain ----
    cfg,          \* configuration snapshot (setting.Cfg) read by the clients
    registered,   \* clients in registration order
    clientQueue,  \* the chain's clients, sorted by Priority()
    req,          \* the inbound request as received (header, URL query)
    rawQuery,     \* r.HTTPRequest.URL.RawQuery now, as a sequence of pairs
    calls,        \* Test / Authenticate invocations made by the chain
    chainResult,  \* what the chain's Authenticate returned
    \* ---- organization sync hooks ----
    members,      \* org service: the user's role per organization, or NoRole
    soleAdmin,    \* org service: organizations with no admin but this user
    userOrg,      \* user service: the user's persisted active organization
    id,           \* the request's authn.Identity
    LoginDefaultOrgId, \* cfg.LoginDefaultOrgId
    hook,         \* the hook that ran last
    hookLog,      \* the service calls that run made
    hookLast,     \* the last of them
    hookRet,      \* what that run returned
    \* ---- role extraction of the claims-token client ----
    JWTAuth,      \* cfg.JWTAuth: RoleAttributePath, RegexOrgRoleMapper
    rolesClaim,   \* the role strings of the token's claims, in claim order
    extracted,    \* what extractRolesAndAdmin returned, one per authentication
    \* ---- anonymous client called on its own ----
    anon          \* the last call of the anonymous client and its outcome

chainVars == <<cfg, registered, clientQueue, req, rawQuery, calls, chainResult>>

syncVars == <<members, soleAdmin, userOrg, id, LoginDefaultOrgId, hook,
              hookLog, hookLast, hookRet>>

roleVars == <<JWTAuth, rolesClaim, extracted>>

anonVars == <<anon>>

vars == <<cfg, registered, clientQueue, req, rawQuery, calls, chainResult,
          members, soleAdmin, userOrg, id, LoginDefaultOrgId, hook,
          hookLog, hookLast, hookRet, JWTAuth, rolesClaim, extracted, anon>>

(***************************************************************************)
(* Bounds                                                                  *)
(***************************************************************************)
MaxClients == 3

\* organizations known to the organization directory, with ids 1..NumOrgs
NumOrgs == 2

\* role strings in the token's roles claim
MaxRoleStrings == 2

\* entries of the regex_org_role_mapper setting
MaxPatterns == 2

\* authentications with the same claims and configuration
MaxAuths == 2

(***************************************************************************)
(* Strings.  A raw token string is an optional "Bearer " prefix followed   *)
(* by a body; the body is named by what the token parser and the verifier  *)
(* make of it:                                                             *)
(*   ""        the empty string                                            *)
(*   garbage   not parsable as a token                                     *)
(*   nosub     verifiable, but without (or with an empty) sub claim        *)
(*   badsig    parsable, carries sub, fails verification                   *)
(*   nologin   verifiable, carries sub, no login and no email claim        *)
(*   good      verifiable, carries sub and a login claim                   *)
(***************************************************************************)
Bodies == {"", "garbage", "nosub", "badsig", "nologin", "good"}

Str(b, k) == [bearer |-> b, body |-> k]

EmptyStr == Str(FALSE, "")

HeaderValues == {Str(b, k) : b \in BOOLEAN, k \in Bodies}

authQueryParamName == "auth_token"

\* "key=value" pairs in a request's query string
MaxParams == 3

\* one "key=value" pair of URL.RawQuery, the value as written in the URL
Param(k, v) == [key |-> k, val |-> v]

\* the keys of the modelled query strings, in the order strings sort
QueryKeys == <<"a", authQueryParamName, "b">>

\* url.QueryUnescape: "100%" is not a valid escape, "x%20y" and "x+y"
\* decode to "x y"
QueryUnescape(s) ==
    IF s.body = "100%" THEN [ok |-> FALSE, s |-> EmptyStr]
    ELSE IF s.body \in {"x%20y", "x+y"}
    THEN [ok |-> TRUE, s |-> Str(s.bearer, "x y")]
    ELSE [ok |-> TRUE, s |-> s]

\* url.QueryEscape: a space is written as "+"
QueryEscape(s) == IF s.body = "x y" THEN Str(s.bearer, "x+y") ELSE s

\* the decoded values of key k in URL order; url.ParseQuery skips a pair
\* it cannot decode, and URL.Query drops the error
RECURSIVE ValuesOf(_, _)
ValuesOf(raw, k) ==
    IF raw = <<>> THEN <<>>
    ELSE LET p == Head(raw)
             v == QueryUnescape(p.val)
         IN  (IF p.key = k /\ v.ok THEN <<v.s>> ELSE <<>>)
                 \o ValuesOf(Tail(raw), k)

\* httpRequest.URL.Query(): url.Values, the values of each key
URL_Query(raw) ==
    [k \in {QueryKeys[i] : i \in DOMAIN QueryKeys} |-> ValuesOf(raw, k)]

\* url.Values.Has
Values_Has(params, k) == params[k] # <<>>

\* url.Values.Get: the first value, "" when the parameter is absent
Values_Get(params, k) == IF params[k] = <<>> THEN EmptyStr ELSE params[k][1]

\* url.Values.Del
Values_Del(params, k) == [params EXCEPT ![k] = <<>>]

\* the pairs of one key, escaped, in value order
RECURSIVE EncodeKey(_, _)
EncodeKey(k, vs) ==
    IF vs = <<>> THEN <<>>
    ELSE <<Param(k, QueryEscape(Head(vs)))>> \o EncodeKey(k, Tail(vs))

\* url.Values.Encode: the pairs sorted by key
RECURSIVE EncodeFrom(_, _)
EncodeFrom(params, i) ==
    IF i > Len(QueryKeys) THEN <<>>
    ELSE EncodeKey(QueryKeys[i], params[QueryKeys[i]])
             \o EncodeFrom(params, i + 1)

Values_Encode(params) == EncodeFrom(params, 1)

\* the query strings of the chain's requests: empty, or the token alone
QueryValues ==
    {<<>>} \cup {<<Param(authQueryParamName, Str(FALSE, k))>> : k \in Bodies}

\* strings.TrimPrefix(s, "Bearer ")
TrimPrefix(s) == Str(FALSE, s.body)

\* httpRequest.URL.Query().Get("auth_token")
QueryGet(q) == Values_Get(URL_Query(q), authQueryParamName)

\* params.Del(authQueryParamName); RawQuery = params.Encode()
QueryDel(q) == Values_Encode(Values_Del(URL_Query(q), authQueryParamName))

(***************************************************************************)
(* Collaborators of the claims-token client                                *)
(***************************************************************************)
\* authJWT.HasSubClaim: parses without verifying, true iff sub is non-empty
HasSubClaim(tok) == tok.body \in {"badsig", "nologin", "good"}

\* auth.JWTVerifierService.Verify: the claims, or a verification error
Verify(tok) ==
    IF tok.body \in {"nosub", "nologin", "good"}
    THEN [ok |-> TRUE,
          sub |-> IF tok.body = "nosub" THEN "" ELSE "subject",
          login |-> IF tok.body = "good" THEN "login" ELSE ""]
    ELSE [ok |-> FALSE, sub |-> "", login |-> ""]

(***************************************************************************)
(* Claims-token client (JWT)                                               *)
(***************************************************************************)
\* Anonymous.Priority
Anonymous_Priority == 100

JWT_Priority_High == Anonymous_Priority + 100

\* JWT.Priority
JWT_Priority == 20

JWT_IsEnabled == cfg.JWTEnabled

\* the value of the configured header; no header has the empty name
HeaderGet(r) == IF cfg.HeaderNameSet THEN r.hdr ELSE EmptyStr

retrieveToken(r, q) ==
    LET jwtToken == HeaderGet(r) IN
    IF jwtToken = EmptyStr /\ cfg.URLLogin
    THEN TrimPrefix(QueryGet(q))
    ELSE TrimPrefix(jwtToken)

stripSensitiveParam(q) ==
    IF cfg.URLLogin
    THEN IF Values_Has(URL_Query(q), authQueryParamName)
         THEN QueryDel(q)
         ELSE q
    ELSE q

JWT_Test_NoSubCheck(r, q) ==
    IF ~cfg.JWTEnabled \/ ~cfg.HeaderNameSet THEN FALSE
    ELSE retrieveToken(r, q) # EmptyStr

JWT_Test(r, q) ==
    IF ~cfg.JWTEnabled \/ ~cfg.HeaderNameSet THEN FALSE
    ELSE IF retrieveToken(r, q) = EmptyStr THEN FALSE
    ELSE IF ~HasSubClaim(retrieveToken(r, q)) THEN FALSE
    ELSE TRUE

Failure(e) == [ok |-> FALSE, err |-> e, identity |-> [client |-> "none"]]

Success(ident) == [ok |-> TRUE, err |-> "nil", identity |-> ident]

\* the chain has not been asked yet
NoResult == [ok |-> FALSE, err |-> "pending", identity |-> [client |-> "none"]]

\* the client with the parameter stripped only once an identity is built
JWT_Authenticate_StripLate(r, q) ==
    LET jwtToken == retrieveToken(r, q)
        claims   == Verify(jwtToken)
    IN  IF ~claims.ok
        THEN [res |-> Failure("jwt.invalid"), query |-> q, seen |-> q]
        ELSE IF claims.sub = ""
        THEN [res |-> Failure("jwt.missing_claim"), query |-> q, seen |-> q]
        ELSE IF claims.login = ""
        THEN [res |-> Failure("jwt.missing_claim"), query |-> q, seen |-> q]
        ELSE [res |-> Success([client |-> "jwt", AuthID |-> claims.sub,
                               Login |-> claims.login,
                               SyncOrgRoles |-> ~cfg.SkipOrgRoleSync]),
              query |-> stripSensitiveParam(q), seen |-> q]

\* returns the outcome, the request's query after the call, and the query
\* the request carried when the verifier was called
JWT_Authenticate(r, q) ==
    LET jwtToken == retrieveToken(r, q)
        q2       == stripSensitiveParam(q)
        claims   == Verify(jwtToken)
    IN  IF ~claims.ok
        THEN [res |-> Failure("jwt.invalid"), query |-> q2, seen |-> q2]
        ELSE IF claims.sub = ""
        THEN [res |-> Failure("jwt.missing_claim"), query |-> q2, seen |-> q2]
        ELSE IF claims.login = ""
        THEN [res |-> Failure("jwt.missing_claim"), query |-> q2, seen |-> q2]
        ELSE [res |-> Success([client |-> "jwt", AuthID |-> claims.sub,
                               Login |-> claims.login,
                               SyncOrgRoles |-> ~cfg.SkipOrgRoleSync]),
              query |-> q2, seen |-> q2]

(***************************************************************************)
(* Anonymous client                                                        *)
(***************************************************************************)
Anonymous_IsEnabled == cfg.AnonymousEnabled

Anonymous_Test(r, q) == TRUE

\* the organization configured as cfg.AnonymousOrgName, when it exists
AnonOrg == [ID |-> 1, Name |-> "a"]

newAnonymousIdentity(o) ==
    [client |-> "anonymous", ID |-> "anonymous:0", OrgID |-> o.ID,
     OrgName |-> o.Name, OrgRoles |-> <<o.Name, cfg.AnonymousOrgRole>>,
     SyncPermissions |-> TRUE]

TagOutcomes == {"ok", "limit", "other"}

Anonymous_Authenticate_AnyTagFailure(r, q, tag) ==
    IF ~cfg.AnonOrgFound THEN [res |-> Failure("org.not_found"), query |-> q]
    ELSE IF tag # "ok"
    THEN [res |-> Failure("anonymous.device_limit"), query |-> q]
    ELSE [res |-> Success(newAnonymousIdentity(AnonOrg)), query |-> q]

\* tag: the outcome of anonDeviceService.TagDevice
Anonymous_Authenticate(r, q, tag) ==
    IF ~cfg.AnonOrgFound THEN [res |-> Failure("org.not_found"), query |-> q]
    ELSE IF tag = "limit"
    THEN [res |-> Failure("anonymous.device_limit"), query |-> q]
    ELSE [res |-> Success(newAnonymousIdentity(AnonOrg)), query |-> q]

\* the collaborators Authenticate calls, in order, with their outcomes
Anonymous_AuthenticateCalls(tag) ==
    IF ~cfg.AnonOrgFound THEN << <<"GetByName", "err">> >>
    ELSE << <<"GetByName", "ok">>, <<"TagDevice", tag>> >>

\* authn.AnonymousNamespaceID
AnonymousNamespaceID == "anonymous:0"

Anonymous_ResolveIdentity_IDFirst(orgID, namespaceID) ==
    IF ~cfg.AnonOrgFound THEN Failure("org.not_found")
    ELSE IF namespaceID # AnonymousNamespaceID
    THEN Failure("anonymous.invalid-id")
    ELSE IF AnonOrg.ID # orgID THEN Failure("anonymous.invalid-org")
    ELSE Success(newAnonymousIdentity(AnonOrg))

Anonymous_ResolveIdentity(orgID, namespaceID) ==
    IF ~cfg.AnonOrgFound THEN Failure("org.not_found")
    ELSE IF AnonOrg.ID # orgID THEN Failure("anonymous.invalid-org")
    ELSE IF namespaceID # AnonymousNamespaceID
    THEN Failure("anonymous.invalid-id")
    ELSE Success(newAnonymousIdentity(AnonOrg))

(***************************************************************************)
(* A further client of the chain, known only through the client interface: *)
(* its priority and its Test are configuration, its Authenticate may fail. *)
(***************************************************************************)
Stub_Authenticate(r, q, good) ==
    IF good THEN [res |-> Success([client |-> "stub"]), query |-> q]
    ELSE [res |-> Failure("stub.failed"), query |-> q]

Clients == {"jwt", "anonymous", "stub"}

Priority(c) ==
    CASE c = "jwt" -> JWT_Priority
      [] c = "anonymous" -> Anonymous_Priority
      [] OTHER -> cfg.StubPriority

IsEnabled(c) ==
    CASE c = "jwt" -> JWT_IsEnabled
      [] c = "anonymous" -> Anonymous_IsEnabled
      [] OTHER -> TRUE

Test(c, r, q) ==
    CASE c = "jwt" -> JWT_Test(r, q)
      [] c = "anonymous" -> Anonymous_Test(r, q)
      [] OTHER -> cfg.StubTest

\* o: the outcomes of the collaborators' calls during this request
ClientAuthenticate(c, r, q, o) ==
    CASE c = "jwt" -> JWT_Authenticate(r, q)
      [] c = "anonymous" -> Anonymous_Authenticate(r, q, o.tag)
      [] OTHER -> Stub_Authenticate(r, q, o.stubOK)

(***************************************************************************)
(* Authentication chain                                                    *)
(***************************************************************************)
\* position at which a client of priority p enters the sorted queue: after
\* every client whose priority is not larger (stable)
InsertPos(queue, p) ==
    1 + Cardinality({i \in DOMAIN queue : Priority(queue[i]) <= p})

InsertSorted(queue, c) ==
    LET k == InsertPos(queue, Priority(c)) IN
    SubSeq(queue, 1, k - 1) \o <<c>> \o SubSeq(queue, k, Len(queue))

RECURSIVE chainFrom(_, _, _, _, _)
chainFrom(queue, i, r, q, o) ==
    IF i > Len(queue)
    THEN [calls |-> <<>>, res |-> Failure("authn.no_applicable_client"),
          query |-> q]
    ELSE LET c == queue[i] IN
         IF ~IsEnabled(c) THEN chainFrom(queue, i + 1, r, q, o)
         ELSE IF ~Test(c, r, q)
         THEN LET rest == chainFrom(queue, i + 1, r, q, o) IN
              [rest EXCEPT !.calls = <<<<"Test", c, "false">>>> \o @]
         ELSE LET a == ClientAuthenticate(c, r, q, o) IN
              [calls |-> << <<"Test", c, "true">>,
                            <<"Authenticate", c, a.res.err>> >>,
               res |-> a.res, query |-> a.query]


(***************************************************************************)
(* Organizations, roles and the identity handed to the sync hooks          *)
(***************************************************************************)
Orgs == 1 .. NumOrgs

OrgNames == <<"a", "b", "c", "d", "e">>

\* a user without an active organization has OrgID 0 and no OrgName
NoOrg == 0

\* org.Org.Name of the organization with id o
NameOf(o) == IF o = NoOrg THEN "" ELSE OrgNames[o]

\* a name no organization has
UnknownName == "z"

Names == {NameOf(o) : o \in Orgs} \cup {UnknownName}

NoRole == "none"

NoCall == <<"none", 0, "none">>

\* the id that "user:1" parses to
UserID == 1

MemberRoles == {"Viewer", "Admin"}

AssertedRoles == {"Viewer", "Editor"}

\* Go map lookup: the zero value "" for a missing key
Lookup(m, k) == IF k \in DOMAIN m THEN m[k] ELSE ""

OrgRoleMaps == UNION {[D -> AssertedRoles] : D \in SUBSET Names}

\* namespace and identifier of Identity.ID
IDKinds == {"user:1", "user:x", "anonymous:0"}

IsNamespaceUser(k) == k \in {"user:1", "user:x"}

\* NamespaceID.ParseInt succeeds
ParsesToUserID(k) == k \in {"user:1", "anonymous:0"}

Identities ==
    {i \in [ID : IDKinds, SyncOrgRoles : BOOLEAN, OrgID : Orgs \cup {NoOrg},
            OrgName : Names \cup {""}, OrgRoles : OrgRoleMaps] :
        i.OrgName = NameOf(i.OrgID)}

\* a Go map without entries
EmptyMap == <<>>

\* no role extraction is taking place
RolesIdle ==
    /\ JWTAuth = [RoleAttributePathSet |-> FALSE, input |-> <<>>,
                  RegexOrgRoleMapper |-> EmptyMap]
    /\ rolesClaim = <<>>
    /\ extracted = <<>>

\* the anonymous client has not been called on its own
NoAnon ==
    [op |-> "none", orgID |-> 0, namespaceID |-> "", calls |-> <<>>,
     res |-> NoResult]

AnonIdle == anon = NoAnon

\* the state before any hook has run; the chain's specification stays here
SyncIdle ==
    /\ members = [o \in Orgs |-> NoRole]
    /\ soleAdmin = {}
    /\ userOrg = 1
    /\ id = [ID |-> "user:1", SyncOrgRoles |-> FALSE, OrgID |-> 1,
             OrgName |-> NameOf(1), OrgRoles |-> <<>>]
    /\ LoginDefaultOrgId = 0
    /\ hook = "none"
    /\ hookLog = {}
    /\ hookLast = NoCall
    /\ hookRet = "none"

ChainIdle ==
    /\ cfg = [JWTEnabled |-> FALSE, HeaderNameSet |-> FALSE, URLLogin |-> FALSE,
              SkipOrgRoleSync |-> FALSE, AnonymousEnabled |-> FALSE,
              AnonymousOrgRole |-> "Viewer", AnonOrgFound |-> FALSE,
              StubPriority |-> JWT_Priority, StubTest |-> FALSE]
    /\ req = [hdr |-> EmptyStr, url |-> <<>>]
    /\ rawQuery = req.url
    /\ registered = <<>>
    /\ clientQueue = <<>>
    /\ calls = <<>>
    /\ chainResult = NoResult

ChainDone == chainResult # NoResult

Configs ==
    [JWTEnabled : BOOLEAN, HeaderNameSet : BOOLEAN, URLLogin : BOOLEAN,
     SkipOrgRoleSync : {FALSE}, AnonymousEnabled : BOOLEAN,
     AnonymousOrgRole : {"Viewer"}, AnonOrgFound : BOOLEAN,
     StubPriority : {JWT_Priority, Anonymous_Priority}, StubTest : BOOLEAN]

Requests == [hdr : HeaderValues, url : QueryValues]

InitChain ==
    /\ cfg \in Configs
    /\ req \in Requests
    /\ rawQuery = req.url
    /\ registered = <<>>
    /\ clientQueue = <<>>
    /\ calls = <<>>
    /\ chainResult = NoResult
    /\ SyncIdle
    /\ RolesIdle
    /\ AnonIdle

RegisterClient(c) ==
    /\ ~ChainDone
    /\ Len(registered) < MaxClients
    /\ \A i \in DOMAIN registered : registered[i] # c
    /\ registered' = Append(registered, c)
    /\ clientQueue' = InsertSorted(clientQueue, c)
    /\ UNCHANGED <<cfg, req, rawQuery, calls, chainResult>>
    /\ UNCHANGED syncVars
    /\ UNCHANGED roleVars
    /\ UNCHANGED anonVars

Authenticate ==
    /\ ~ChainDone
    /\ \E tag \in TagOutcomes, stubOK \in BOOLEAN :
         LET out == chainFrom(clientQueue, 1, req, rawQuery,
                              [tag |-> tag, stubOK |-> stubOK]) IN
         /\ calls' = out.calls
         /\ chainResult' = out.res
         /\ rawQuery' = out.query
    /\ UNCHANGED <<cfg, req, registered, clientQueue>>
    /\ UNCHANGED syncVars
    /\ UNCHANGED roleVars
    /\ UNCHANGED anonVars

NextChain ==
    \/ \E c \in Clients : RegisterClient(c)
    \/ Authenticate

SpecChain == InitChain /\ [][NextChain]_vars

(***************************************************************************)
(* OrgSync.SyncOrgRolesHook.  A run is computed as the set of its possible *)
(* outcomes, one per combination of outcomes of the service calls it makes *)
(* and per iteration order of the membership list and of the OrgRoles map. *)
(***************************************************************************)
\* a run in progress: persisted state, Identity.OrgID, the calls made (each
\* with the id it is about and the service's answer), the return value
Running(ident) ==
    [members |-> members, userOrg |-> userOrg, OrgID |-> ident.OrgID,
     log |-> {}, last |-> NoCall, ret |-> "running"]

\* the run calls service operation op on arg, and the service answers out
Call(s, op, arg, out) ==
    [s EXCEPT !.log = @ \cup {<<op, arg, out>>}, !.last = <<op, arg, out>>]

Return(s, r) == [s EXCEPT !.ret = r]

\* orgService.GetByName: ErrOrgNotFound for an unknown name; any lookup may fail
GetByNameOutcomes(orgName) ==
    IF orgName = UnknownName THEN {"fail"} ELSE {"ok", "fail"}

\* the id of the organization of that name, 0 when there is none
IDOf(orgName) ==
    IF \E o \in Orgs : NameOf(o) = orgName
    THEN CHOOSE o \in Orgs : NameOf(o) = orgName
    ELSE 0

\* orgService.RemoveOrgUser: ErrLastOrgAdmin when the user is the only admin
RemoveOutcomes(s, orgID) ==
    IF s.members[orgID] = "Admin" /\ orgID \in soleAdmin
    THEN {"last_admin", "err"}
    ELSE {"ok", "err"}

InsertAsc(sorted, x) ==
    LET k == Cardinality({i \in DOMAIN sorted : sorted[i] < x}) IN
    SubSeq(sorted, 1, k) \o <<x>> \o SubSeq(sorted, k + 1, Len(sorted))

SortAsc_Unsorted(ids) == ids

\* sort.Slice(orgIDs, func(i, j) { return orgIDs[i] < orgIDs[j] })
RECURSIVE SortAsc(_)
SortAsc(ids) ==
    IF ids = <<>> THEN <<>> ELSE InsertAsc(SortAsc(Tail(ids)), Head(ids))

\* extRole == "": the organization is not among the asserted roles
notAsserted(extRole) == extRole = ""

roleDiffers_Never(extRole, role) == FALSE

\* extRole != orga.Role
roleDiffers(extRole, role) == extRole # role

lookupFailed_Never(found) == FALSE

\* orga == nil || e != nil
lookupFailed(found) == found = "fail"

alreadyHandled_Never(handledOrgIds, orga) == FALSE

\* _, exists := handledOrgIds[orga.ID]
alreadyHandled(handledOrgIds, orga) == orga \in handledOrgIds

isLastOrgAdmin_Never(out) == FALSE

\* errors.Is(err, org.ErrLastOrgAdmin)
isLastOrgAdmin(out) == out = "last_admin"

addFailed_Never(out) == FALSE

\* err != nil && !errors.Is(err, org.ErrOrgNotFound)
addFailed(out) == out # "ok" /\ out # "not_found"

\* update user's default org if needed
updateDefaultOrg(s, orgIDs, ident) ==
    LET sorted == SortAsc(orgIDs) IN
    IF ident.OrgName \notin DOMAIN ident.OrgRoles /\ Len(sorted) > 0
    THEN {IF out = "ok"
          THEN Return(Call([s EXCEPT !.OrgID = sorted[1],
                                     !.userOrg = sorted[1]],
                           "Update", sorted[1], out), "nil")
          ELSE Return(Call([s EXCEPT !.OrgID = sorted[1]],
                           "Update", sorted[1], out), "err.user_update")
          : out \in {"ok", "err"}}
    ELSE {Return(s, "nil")}

\* delete any removed org roles
RECURSIVE removeOrgRoles(_, _, _, _)
removeOrgRoles(s, deleteOrgIds, orgIDs, ident) ==
    IF deleteOrgIds = <<>> THEN updateDefaultOrg(s, orgIDs, ident)
    ELSE LET orgID == Head(deleteOrgIds)
             rest  == Tail(deleteOrgIds)
         IN  UNION {
               IF out = "ok"
               THEN UNION {removeOrgRoles(
                             Call(Call([s EXCEPT !.members[orgID] = NoRole],
                                       "RemoveOrgUser", orgID, out),
                                  "DeleteUserPermissions", orgID, perm),
                             rest, orgIDs, ident) : perm \in {"ok", "err"}}
               ELSE IF isLastOrgAdmin(out)
               THEN removeOrgRoles(Call(s, "RemoveOrgUser", orgID, out),
                                   rest, orgIDs, ident)
               ELSE {Return(Call(s, "RemoveOrgUser", orgID, out), "err.remove")}
               : out \in RemoveOutcomes(s, orgID)}

\* add any new org roles; names: the keys of id.OrgRoles not yet visited
RECURSIVE addOrgRoles(_, _, _, _, _, _)
addOrgRoles(s, names, handledOrgIds, orgIDs, deleteOrgIds, ident) ==
    IF names = {} THEN removeOrgRoles(s, deleteOrgIds, orgIDs, ident)
    ELSE UNION {
      LET rest    == names \ {orgName}
          orgRole == ident.OrgRoles[orgName]
      IN  UNION {
            IF lookupFailed(found)
            THEN addOrgRoles(Call(s, "GetByName", IDOf(orgName), found), rest,
                             handledOrgIds, orgIDs, deleteOrgIds, ident)
            ELSE LET orga == IDOf(orgName)
                     s1   == Call(s, "GetByName", IDOf(orgName), found)
                     ids  == Append(orgIDs, orga)
                 IN  IF alreadyHandled(handledOrgIds, orga)
                     THEN addOrgRoles(s1, rest, handledOrgIds, ids,
                                      deleteOrgIds, ident)
                     ELSE UNION {
                       IF addFailed(out)
                       THEN {Return(Call(s1, "AddOrgUser", orga, out),
                                    "err.add")}
                       ELSE IF out = "ok"
                       THEN addOrgRoles(
                              Call([s1 EXCEPT !.members[orga] = orgRole],
                                   "AddOrgUser", orga, out),
                              rest, handledOrgIds, ids, deleteOrgIds, ident)
                       ELSE addOrgRoles(Call(s1, "AddOrgUser", orga, out),
                                        rest, handledOrgIds, ids,
                                        deleteOrgIds, ident)
                       : out \in {"ok", "not_found", "err"}}
            : found \in GetByNameOutcomes(orgName)}
      : orgName \in names}

\* update existing org roles; result: the fetched memberships not yet visited
RECURSIVE updateOrgRoles(_, _, _, _, _)
updateOrgRoles(s, result, handledOrgIds, deleteOrgIds, ident) ==
    IF result = {}
    THEN addOrgRoles(s, DOMAIN ident.OrgRoles, handledOrgIds, <<>>,
                     deleteOrgIds, ident)
    ELSE UNION {
      LET rest    == result \ {orga}
          handled == handledOrgIds \cup {orga}
      IN  UNION {
            IF byID = "fail"
            THEN \* orgb is nil: orgb.Name dereferences a nil pointer
                 {Return(Call(s, "GetByID", orga, byID), "panic")}
            ELSE LET s1      == Call(s, "GetByID", orga, byID)
                     extRole == Lookup(ident.OrgRoles, NameOf(orga))
                 IN  IF notAsserted(extRole)
                     THEN updateOrgRoles(s1, rest, handled,
                                         Append(deleteOrgIds, orga), ident)
                     ELSE IF roleDiffers(extRole, s.members[orga])
                     THEN UNION {
                       IF out = "ok"
                       THEN updateOrgRoles(
                              Call([s1 EXCEPT !.members[orga] = extRole],
                                   "UpdateOrgUser", orga, out),
                              rest, handled, deleteOrgIds, ident)
                       ELSE {Return(Call(s1, "UpdateOrgUser", orga, out),
                                    "err.update")}
                       : out \in {"ok", "err"}}
                     ELSE updateOrgRoles(s1, rest, handled, deleteOrgIds,
                                         ident)
            : byID \in {"ok", "fail"}}
      : orga \in result}

\* from the fetch of the user's memberships on
syncOrgRoles(s, ident) ==
    UNION {
      IF list = "err"
      THEN {Return(Call(s, "GetUserOrgList", UserID, list), "nil")}
      ELSE updateOrgRoles(Call(s, "GetUserOrgList", UserID, list),
                          {o \in Orgs : members[o] # NoRole}, {}, <<>>, ident)
      : list \in {"ok", "err"}}

SyncOrgRolesHookRuns_NoGuards(ident) == syncOrgRoles(Running(ident), ident)

SyncOrgRolesHookRuns(ident) ==
    LET s == Running(ident) IN
    IF ~ident.SyncOrgRoles THEN {Return(s, "nil")}
    ELSE IF ~IsNamespaceUser(ident.ID) THEN {Return(s, "nil")}
    ELSE IF ~ParsesToUserID(ident.ID) THEN {Return(s, "nil")}
    ELSE IF Cardinality(DOMAIN ident.OrgRoles) = 0 THEN {Return(s, "nil")}
    ELSE syncOrgRoles(s, ident)

SyncOrgRolesHook ==
    /\ \E f \in SyncOrgRolesHookRuns(id) :
         /\ members' = f.members
         /\ userOrg' = f.userOrg
         /\ id' = [id EXCEPT !.OrgID = f.OrgID]
         /\ hookLog' = f.log
         /\ hookLast' = f.last
         /\ hookRet' = f.ret
    /\ hook' = "SyncOrgRolesHook"
    /\ UNCHANGED <<soleAdmin, LoginDefaultOrgId>>
    /\ UNCHANGED chainVars
    /\ UNCHANGED roleVars
    /\ UNCHANGED anonVars

(***************************************************************************)
(* OrgSync.SetDefaultOrgHook                                               *)
(***************************************************************************)
validateUsingOrg_AnyOrg(orgID, list) ==
    IF list = "err" THEN [has |-> FALSE, err |-> TRUE]
    ELSE [has |-> \E other \in Orgs : members[other] # NoRole, err |-> FALSE]

\* list: the outcome of orgService.GetUserOrgList
validateUsingOrg(orgID, list) ==
    IF list = "err" THEN [has |-> FALSE, err |-> TRUE]
    ELSE [has |-> \E other \in Orgs : members[other] # NoRole /\ other = orgID,
          err |-> FALSE]

\* the hook, were it to set Identity.OrgID to the organization it persists
SetDefaultOrgHookRuns_SetsOrgID(ident, isNil, err) ==
    LET s == Running(ident) IN
    IF LoginDefaultOrgId < 1 \/ isNil \/ err # "nil" THEN {Return(s, "void")}
    ELSE IF ~IsNamespaceUser(ident.ID) THEN {Return(s, "void")}
    ELSE IF ~ParsesToUserID(ident.ID) THEN {Return(s, "void")}
    ELSE UNION {
      LET v  == validateUsingOrg(LoginDefaultOrgId, list)
          s1 == Call(s, "GetUserOrgList", UserID, list)
      IN  IF v.err THEN {Return(s1, "void")}
          ELSE IF ~v.has THEN {Return(s1, "void")}
          ELSE {Return(Call([s1 EXCEPT !.userOrg =
                                IF out = "ok" THEN LoginDefaultOrgId ELSE @,
                                       !.OrgID = LoginDefaultOrgId],
                            "Update", LoginDefaultOrgId, out), "void")
                : out \in {"ok", "err"}}
      : list \in {"ok", "err"}}

\* isNil: currentIdentity == nil; err: the error of the step before
SetDefaultOrgHookRuns(ident, isNil, err) ==
    LET s == Running(ident) IN
    IF LoginDefaultOrgId < 1 \/ isNil \/ err # "nil" THEN {Return(s, "void")}
    ELSE IF ~IsNamespaceUser(ident.ID) THEN {Return(s, "void")}
    ELSE IF ~ParsesToUserID(ident.ID) THEN {Return(s, "void")}
    ELSE UNION {
      LET v  == validateUsingOrg(LoginDefaultOrgId, list)
          s1 == Call(s, "GetUserOrgList", UserID, list)
      IN  IF v.err THEN {Return(s1, "void")}
          ELSE IF ~v.has THEN {Return(s1, "void")}
          ELSE {Return(Call([s1 EXCEPT !.userOrg =
                                IF out = "ok" THEN LoginDefaultOrgId ELSE @],
                            "Update", LoginDefaultOrgId, out), "void")
                : out \in {"ok", "err"}}
      : list \in {"ok", "err"}}

SetDefaultOrgHook(isNil, err) ==
    /\ \E f \in SetDefaultOrgHookRuns(id, isNil, err) :
         /\ members' = f.members
         /\ userOrg' = f.userOrg
         /\ id' = [id EXCEPT !.OrgID = f.OrgID]
         /\ hookLog' = f.log
         /\ hookLast' = f.last
         /\ hookRet' = f.ret
    /\ hook' = IF isNil THEN "SetDefaultOrgHook(nil)"
               ELSE IF err # "nil" THEN "SetDefaultOrgHook(err)"
               ELSE "SetDefaultOrgHook"
    /\ UNCHANGED <<soleAdmin, LoginDefaultOrgId>>
    /\ UNCHANGED chainVars
    /\ UNCHANGED roleVars
    /\ UNCHANGED anonVars

(***************************************************************************)
(* Specifications of the hooks                                             *)
(***************************************************************************)
\* the persisted state and the identity a hook can be handed
SyncStates ==
    /\ members \in [Orgs -> MemberRoles \cup {NoRole}]
    /\ soleAdmin \in SUBSET {o \in Orgs : members[o] = "Admin"}
    /\ id \in Identities
    /\ id.OrgName = NameOf(id.OrgID)
    /\ userOrg = id.OrgID
    /\ hook = "none"
    /\ hookLog = {}
    /\ hookLast = NoCall
    /\ hookRet = "none"

InitSync ==
    /\ ChainIdle
    /\ RolesIdle
    /\ AnonIdle
    /\ SyncStates
    /\ LoginDefaultOrgId = 0

\* one request: the hook runs once
NextSync == hook = "none" /\ SyncOrgRolesHook

SpecSync == InitSync /\ [][NextSync]_vars

InitDefaultOrg ==
    /\ ChainIdle
    /\ RolesIdle
    /\ AnonIdle
    /\ SyncStates
    /\ id.OrgRoles = <<>>
    /\ LoginDefaultOrgId \in 0 .. NumOrgs + 1

NextDefaultOrg ==
    /\ hook = "none"
    /\ \E isNil \in BOOLEAN, err \in {"nil", "err.hook"} :
        SetDefaultOrgHook(isNil, err)

SpecDefaultOrg == InitDefaultOrg /\ [][NextDefaultOrg]_vars

\* one request: the role sync, then the default-org sync
InitRequest ==
    /\ ChainIdle
    /\ RolesIdle
    /\ AnonIdle
    /\ SyncStates
    /\ LoginDefaultOrgId \in 0 .. NumOrgs + 1

\* the role sync has returned; the default-org sync is handed the identity
\* and the error of the request so far, which is not nil when the role sync
\* returned an error
NextRequest ==
    \/ hook = "none" /\ SyncOrgRolesHook
    \/ /\ hook = "SyncOrgRolesHook"
       /\ hookRet # "panic"
       /\ \E err \in {"nil", "err.hook"} :
            /\ hookRet # "nil" => err # "nil"
            /\ SetDefaultOrgHook(FALSE, err)

SpecRequest == InitRequest /\ [][NextRequest]_vars

\* the same identity is handed to the role sync again and again
InitResync ==
    /\ InitSync
    /\ id.ID = "user:1" /\ id.SyncOrgRoles /\ DOMAIN id.OrgRoles # {}

NextResync == SyncOrgRolesHook

SpecResync == InitResync /\ [][NextResync]_vars

(***************************************************************************)
(* Strings of the role extraction.  A string is a sequence of atoms; ":"   *)
(* and " " are atoms of their own, every other atom is a run of characters *)
(* without colon or space.                                                 *)
(***************************************************************************)
\* strings.Split(s, sep), sep a single atom
RECURSIVE Split(_, _)
Split(str, sep) ==
    IF \A i \in DOMAIN str : str[i] # sep THEN <<str>>
    ELSE LET k == CHOOSE i \in DOMAIN str :
                    str[i] = sep /\ \A j \in 1 .. i - 1 : str[j] # sep
         IN  <<SubSeq(str, 1, k - 1)>> \o Split(SubSeq(str, k + 1, Len(str)), sep)

\* strings.Fields(s): the maximal runs without white space
Fields(str) == SelectSeq(Split(str, " "), LAMBDA f : f # <<>>)

\* strings.LastIndex(s, sep), counted from 1; 0 when sep does not occur
LastIndex(str, sep) ==
    IF \A i \in DOMAIN str : str[i] # sep THEN 0
    ELSE CHOOSE i \in DOMAIN str :
            str[i] = sep /\ \A j \in i + 1 .. Len(str) : str[j] # sep

\* strings.Join(parts, sep)
RECURSIVE Join(_, _)
Join(parts, sep) ==
    IF parts = <<>> THEN <<>>
    ELSE IF Len(parts) = 1 THEN parts[1]
    ELSE parts[1] \o <<sep>> \o Join(Tail(parts), sep)

\* m[k] = v on a Go map
Put(m, k, v) == [x \in DOMAIN m \cup {k} |-> IF x = k THEN v ELSE m[x]]

\* m[k] on a Go map of strings: "" for a missing key
Get(m, k) == IF k \in DOMAIN m THEN m[k] ELSE <<>>

RoleEditor == <<"Editor">>

RoleViewer == <<"Viewer">>

(***************************************************************************)
(* setting.parseOrgMapperConfig                                            *)
(***************************************************************************)
RECURSIVE parseSplits(_, _)
parseSplits(result, splits) ==
    IF splits = <<>> THEN result
    ELSE LET split == Head(splits)
             i     == LastIndex(split, ":")
         IN  parseSplits(Put(result, SubSeq(split, 1, i - 1),
                             SubSeq(split, i + 1, Len(split))),
                         Tail(splits))

parseOrgMapperConfig(input) ==
    IF input = <<>> THEN EmptyMap ELSE parseSplits(EmptyMap, Fields(input))

(***************************************************************************)
(* regexp: a pattern is a string whose atom "ORG" stands for the named     *)
(* group (?P<org>[^:]+); every other atom matches itself.  The match is    *)
(* the leftmost one, the group greedy.                                     *)
(***************************************************************************)
NoMatch == [ok |-> FALSE, org |-> <<>>]

\* the atoms from position i on that [^:]+ can take
Run(str, i) ==
    {n \in 1 .. Len(str) - i + 1 : \A k \in i .. i + n - 1 : str[k] # ":"}

\* the pattern from its element j on, against the string from position i on
RECURSIVE MatchFrom(_, _, _, _, _)
MatchFrom(pat, str, j, i, org) ==
    IF j > Len(pat) THEN [ok |-> TRUE, org |-> org]
    ELSE IF pat[j] = "ORG"
    THEN LET good == {n \in Run(str, i) :
                        MatchFrom(pat, str, j + 1, i + n,
                                  SubSeq(str, i, i + n - 1)).ok}
         IN  IF good = {} THEN NoMatch
             ELSE LET n == CHOOSE x \in good : \A y \in good : y <= x IN
                  MatchFrom(pat, str, j + 1, i + n, SubSeq(str, i, i + n - 1))
    ELSE IF i <= Len(str) /\ str[i] = pat[j]
    THEN MatchFrom(pat, str, j + 1, i + 1, org)
    ELSE NoMatch

\* myExp.FindStringSubmatch(jwtRole) with myExp.SubexpNames(): whether the
\* pattern matches, and what its group org captured (<<>> without a group)
FindStringSubmatch(pat, str) ==
    LET starts == {i \in 1 .. Len(str) + 1 : MatchFrom(pat, str, 1, i, <<>>).ok}
    IN  IF starts = {} THEN NoMatch
        ELSE MatchFrom(pat, str, 1,
                       CHOOSE i \in starts : \A k \in starts : i <= k, <<>>)

HasOrgGroup(pat) == \E j \in DOMAIN pat : pat[j] = "ORG"

(***************************************************************************)
(* JWT.extractRolesAndAdmin                                                *)
(***************************************************************************)
\* one pattern of the mapper against one role string
applyPattern(resultOrgRoles, regexString, grafanaRole, jwtRole) ==
    LET match == FindStringSubmatch(regexString, jwtRole) IN
    IF match.ok /\ HasOrgGroup(regexString)
          /\ Get(resultOrgRoles, match.org) = <<>>
    THEN Put(resultOrgRoles, match.org, grafanaRole)
    ELSE resultOrgRoles

\* for regexString, grafanaRole := range RegexOrgRoleMapper: the order of a
\* range over a Go map is not specified, every order of the patterns not
\* yet visited is possible
RECURSIVE rangeMapper(_, _, _, _)
rangeMapper(resultOrgRoles, mapper, patterns, jwtRole) ==
    IF patterns = {} THEN {resultOrgRoles}
    ELSE UNION {rangeMapper(applyPattern(resultOrgRoles, regexString,
                                         mapper[regexString], jwtRole),
                            mapper, patterns \ {regexString}, jwtRole)
                : regexString \in patterns}

\* for _, jwtRole := range rolesSlice, in regex mode
RECURSIVE regexRoles(_, _, _)
regexRoles(resultOrgRoles, mapper, rolesSlice) ==
    IF rolesSlice = <<>> THEN {resultOrgRoles}
    ELSE UNION {regexRoles(r, mapper, Tail(rolesSlice))
                : r \in rangeMapper(resultOrgRoles, mapper, DOMAIN mapper,
                                    Head(rolesSlice))}

staticRole_FirstWins(resultOrgRoles, role) ==
    LET parsedRole == Split(role, ":") IN
    IF Len(parsedRole) # 3 THEN resultOrgRoles
    ELSE IF parsedRole[2] \in DOMAIN resultOrgRoles THEN resultOrgRoles
    ELSE IF parsedRole[3] = <<"admin">>
    THEN Put(resultOrgRoles, parsedRole[2], RoleEditor)
    ELSE IF parsedRole[3] = <<"viewer">>
    THEN Put(resultOrgRoles, parsedRole[2], RoleViewer)
    ELSE resultOrgRoles

\* one statically mapped role string
staticRole(resultOrgRoles, role) ==
    LET parsedRole == Split(role, ":") IN
    IF Len(parsedRole) # 3 THEN resultOrgRoles
    ELSE IF parsedRole[3] = <<"admin">>
    THEN Put(resultOrgRoles, parsedRole[2], RoleEditor)
    ELSE IF parsedRole[3] = <<"viewer">>
    THEN Put(resultOrgRoles, parsedRole[2], RoleViewer)
    ELSE resultOrgRoles

\* for _, role := range rolesSlice, in static mode
RECURSIVE staticRoles(_, _)
staticRoles(resultOrgRoles, rolesSlice) ==
    IF rolesSlice = <<>> THEN resultOrgRoles
    ELSE staticRoles(staticRole(resultOrgRoles, Head(rolesSlice)),
                     Tail(rolesSlice))

\* the possible results: the organization roles and the Grafana-admin flag
extractRolesAndAdmin(jwtAuth, rolesSlice) ==
    IF ~jwtAuth.RoleAttributePathSet
    THEN {[roles |-> EmptyMap, admin |-> FALSE]}
    ELSE IF Len(rolesSlice) = 0
    THEN {[roles |-> EmptyMap, admin |-> FALSE]}
    ELSE IF DOMAIN jwtAuth.RegexOrgRoleMapper # {}
    THEN {[roles |-> r, admin |-> FALSE]
          : r \in regexRoles(EmptyMap, jwtAuth.RegexOrgRoleMapper, rolesSlice)}
    ELSE {[roles |-> staticRoles(EmptyMap, rolesSlice), admin |-> FALSE]}

(***************************************************************************)
(* Specification of the role extraction                                    *)
(***************************************************************************)
\* role strings <scope>, <scope>:<org>, <scope>:<org>:<role> and
\* <scope>:<org>:<role>:<more>
RoleParts ==
    LET orgs  == {<<"A">>, <<"B">>}
        roles == {<<"admin">>, <<"viewer">>, <<"editor">>}
    IN  {<< <<"x">> >>}
          \cup {<< <<"x">>, o >> : o \in orgs}
          \cup {<< <<"x">>, o, r >> : o \in orgs, r \in roles}
          \cup {<< <<"x">>, o, r, <<"admin">> >> : o \in orgs, r \in roles}

RoleStrings == {Join(parts, ":") : parts \in RoleParts}

\* the role strings tried against the patterns
RegexRoleStrings ==
    {str \in RoleStrings :
        \/ Len(Split(str, ":")) = 1
        \/ Len(Split(str, ":")) = 3 /\ Split(str, ":")[3] # <<"editor">>}

Patterns ==
    {<<"x", ":", "ORG", ":", "admin">>, <<"ORG", ":", "admin">>,
     <<"x", ":", "ORG", ":", "viewer">>}

\* an entry <pattern>:<role> of the setting
MapperEntries ==
    {pat \o <<":">> \o r : pat \in Patterns, r \in {RoleEditor, RoleViewer}}

SeqsUpTo(S, n) == UNION {[1 .. k -> S] : k \in 0 .. n}

\* the setting: its entries separated by a blank
MapperInputs == {Join(e, " ") : e \in SeqsUpTo(MapperEntries, MaxPatterns)}

InitRoles ==
    /\ ChainIdle
    /\ SyncIdle
    /\ AnonIdle
    /\ \E input \in MapperInputs, path \in BOOLEAN :
         /\ input # <<>> => path
         /\ JWTAuth = [RoleAttributePathSet |-> path, input |-> input,
                       RegexOrgRoleMapper |-> parseOrgMapperConfig(input)]
    /\ rolesClaim \in SeqsUpTo(IF JWTAuth.input = <<>> THEN RoleStrings
                               ELSE RegexRoleStrings, MaxRoleStrings)
    /\ extracted = <<>>

\* one authentication: JWT.Authenticate extracts the roles of the claims
ExtractRoles ==
    /\ Len(extracted) < MaxAuths
    /\ \E r \in extractRolesAndAdmin(JWTAuth, rolesClaim) :
         extracted' = Append(extracted, r)
    /\ UNCHANGED <<JWTAuth, rolesClaim>>
    /\ UNCHANGED chainVars
    /\ UNCHANGED syncVars
    /\ UNCHANGED anonVars

NextRoles == ExtractRoles

SpecRoles == InitRoles /\ [][NextRoles]_vars

(***************************************************************************)
(* Specification of the anonymous client called on its own                 *)
(***************************************************************************)
\* the configurations of the anonymous client
AnonConfigs ==
    {c \in [JWTEnabled : {FALSE}, HeaderNameSet : {FALSE}, URLLogin : {FALSE},
            SkipOrgRoleSync : {FALSE}, AnonymousEnabled : BOOLEAN,
            AnonymousOrgRole : {"Viewer", "Editor", "Admin"},
            AnonOrgFound : BOOLEAN, StubPriority : {JWT_Priority},
            StubTest : {FALSE}] : TRUE}

\* the namespaced ids ResolveIdentity is asked about
NamespaceIDs == IDKinds \cup {AnonymousNamespaceID, "anonymous:1"}

InitAnonymous ==
    /\ cfg \in AnonConfigs
    /\ req = [hdr |-> EmptyStr, url |-> <<>>]
    /\ rawQuery = req.url
    /\ registered = <<>>
    /\ clientQueue = <<>>
    /\ calls = <<>>
    /\ chainResult = NoResult
    /\ SyncIdle
    /\ RolesIdle
    /\ AnonIdle

AnonymousAuthenticate ==
    /\ \E tag \in TagOutcomes :
         anon' = [op |-> "Authenticate", orgID |-> 0, namespaceID |-> "",
                  calls |-> Anonymous_AuthenticateCalls(tag),
                  res |-> Anonymous_Authenticate(req, rawQuery, tag).res]
    /\ UNCHANGED chainVars
    /\ UNCHANGED syncVars
    /\ UNCHANGED roleVars

AnonymousResolveIdentity ==
    /\ \E orgID \in 0 .. NumOrgs, namespaceID \in NamespaceIDs :
         anon' = [op |-> "ResolveIdentity", orgID |-> orgID,
                  namespaceID |-> namespaceID,
                  calls |-> << <<"GetByName",
                                 IF cfg.AnonOrgFound THEN "ok" ELSE "err">> >>,
                  res |-> Anonymous_ResolveIdentity(orgID, namespaceID)]
    /\ UNCHANGED chainVars
    /\ UNCHANGED syncVars
    /\ UNCHANGED roleVars

NextAnonymous == AnonymousAuthenticate \/ AnonymousResolveIdentity

SpecAnonymous == InitAnonymous /\ [][NextAnonymous]_vars

(***************************************************************************)
(* The claims-token client called on its own, on requests whose query      *)
(* string carries other parameters besides the token.                      *)
(***************************************************************************)
JWTConfigs ==
    [JWTEnabled : {TRUE}, HeaderNameSet : BOOLEAN, URLLogin : BOOLEAN,
     SkipOrgRoleSync : {FALSE}, AnonymousEnabled : {FALSE},
     AnonymousOrgRole : {"Viewer"}, AnonOrgFound : {FALSE},
     StubPriority : {JWT_Priority}, StubTest : {FALSE}]

\* the pairs a query string is made of: the token, and values of other keys
\* that decode to themselves, that decode to another string, or not at all
QueryPairs ==
    {Param(authQueryParamName, Str(FALSE, k)) : k \in Bodies}
        \cup {Param(k, Str(FALSE, v)) : k \in {"a", "b"},
                                        v \in {"1", "x%20y", "100%"}}

RawQueries == UNION {[1 .. n -> QueryPairs] : n \in 0 .. MaxParams}

JWTRequests == [hdr : {EmptyStr, Str(TRUE, "good")}, url : RawQueries]

InitJWT ==
    /\ cfg \in JWTConfigs
    /\ req \in JWTRequests
    /\ rawQuery = req.url
    /\ registered = <<>>
    /\ clientQueue = <<>>
    /\ calls = <<>>
    /\ chainResult = NoResult
    /\ SyncIdle
    /\ RolesIdle
    /\ AnonIdle

\* JWT.Test on the request; the call is recorded with its answer
JWTTest ==
    /\ ~ChainDone
    /\ calls = <<>>
    /\ calls' = <<[op |-> "Test", ok |-> JWT_Test(req, rawQuery),
                   url |-> rawQuery]>>
    /\ UNCHANGED <<cfg, req, registered, clientQueue, rawQuery, chainResult>>
    /\ UNCHANGED syncVars
    /\ UNCHANGED roleVars
    /\ UNCHANGED anonVars

\* JWT.Authenticate on the request; the call of the verifier is recorded
\* with the query the request carried at that moment
JWTAuthenticate ==
    /\ ~ChainDone
    /\ LET out == JWT_Authenticate(req, rawQuery) IN
         /\ calls' = Append(calls,
                           [op |-> "Verify",
                            ok |-> Verify(retrieveToken(req, rawQuery)).ok,
                            url |-> out.seen])
         /\ chainResult' = out.res
         /\ rawQuery' = out.query
    /\ UNCHANGED <<cfg, req, registered, clientQueue>>
    /\ UNCHANGED syncVars
    /\ UNCHANGED roleVars
    /\ UNCHANGED anonVars

NextJWT == JWTTest \/ JWTAuthenticate

SpecJWT == InitJWT /\ [][NextJWT]_vars

(***************************************************************************)
(* Claims about the chain                                                  *)
(***************************************************************************)
\* the clients whose Test holds for the request as it was received
Applicable == {i \in DOMAIN registered :
                 IsEnabled(registered[i]) /\ Test(registered[i], req, req.url)}

\* registered[i] is tried before registered[j]
Before(i, j) ==
    \/ Priority(registered[i]) < Priority(registered[j])
    \/ Priority(registered[i]) = Priority(registered[j]) /\ i < j

AuthenticateCalls == SelectSeq(calls, LAMBDA e : e[1] = "Authenticate")

IsRegistered(c) == \E i \in DOMAIN registered : registered[i] = c

AnonymousIdentityReturned ==
    chainResult.ok /\ chainResult.identity.client = "anonymous"

\* C1: the chain calls Authenticate on exactly one client, the enabled one of
\* lowest priority (ties by registration order) whose Test is true, so the
\* claims-token client (20) goes before the anonymous one (100); when that
\* client fails nothing is called after it and the chain returns its error;
\* when no client applies the chain fails with "no applicable mechanism".
C1_ChainFirstApplicable ==
    ChainDone =>
      IF Applicable = {}
      THEN /\ AuthenticateCalls = <<>>
           /\ ~chainResult.ok
           /\ chainResult.err = "authn.no_applicable_client"
      ELSE LET i == CHOOSE k \in Applicable :
                        \A j \in Applicable \ {k} : Before(k, j)
               c == registered[i]
           IN  /\ Len(AuthenticateCalls) = 1
               /\ AuthenticateCalls[1][2] = c
               /\ calls[Len(calls)] = AuthenticateCalls[1]
               /\ chainResult.err = AuthenticateCalls[1][3]
               /\ chainResult.ok => chainResult.identity.client = c
               /\ \A k \in DOMAIN calls :
                     calls[k][1] = "Test" =>
                        \E j \in DOMAIN registered :
                           /\ registered[j] = calls[k][2]
                           /\ (j = i \/ Before(j, i))
               /\ c = "anonymous" =>
                     ~\E k \in Applicable : registered[k] = "jwt"

C1_Witness ==
    /\ ChainDone
    /\ registered = <<"anonymous", "stub", "jwt">>
    /\ \A i \in DOMAIN registered : i \in Applicable
    /\ cfg.StubPriority = Anonymous_Priority
    /\ ~chainResult.ok
    /\ chainResult.err = "jwt.invalid"
    /\ calls = << <<"Test", "jwt", "true">>,
                  <<"Authenticate", "jwt", "jwt.invalid">> >>

BothEnabled ==
    /\ cfg.JWTEnabled /\ cfg.HeaderNameSet /\ cfg.AnonymousEnabled
    /\ IsRegistered("jwt") /\ IsRegistered("anonymous")

\* the request carries a non-empty token that does not parse or lacks sub
MalformedToken ==
    LET t == retrieveToken(req, req.url) IN
    t # EmptyStr /\ t.body \in {"garbage", "nosub"}

\* C2 (as claimed): with both clients enabled, a request with a malformed
\* claims token is never authenticated as an anonymous identity.
C2_NoAnonymousFallback ==
    (ChainDone /\ BothEnabled /\ MalformedToken) => ~AnonymousIdentityReturned

StubApplicable == IsRegistered("stub") /\ cfg.StubTest

\* C2 (amended): with both clients enabled, a request whose token carries a
\* subject claim is never handed to the anonymous client, and when the
\* claims-token client is the one chosen and verification fails the chain
\* returns the invalid-token error; a token that does not parse or lacks
\* the subject claim makes JWT.Test false, and the request falls through
\* to the anonymous client.
C2_FallbackOnlyWithoutSub ==
    (ChainDone /\ BothEnabled) =>
      LET t == retrieveToken(req, req.url) IN
      /\ HasSubClaim(t) =>
           /\ ~AnonymousIdentityReturned
           /\ \A k \in DOMAIN calls : calls[k][2] # "anonymous"
      /\ (HasSubClaim(t) /\ ~Verify(t).ok /\ ~StubApplicable) =>
           /\ ~chainResult.ok
           /\ chainResult.err = "jwt.invalid"
      /\ (MalformedToken /\ ~StubApplicable) =>
           /\ AuthenticateCalls = << <<"Authenticate", "anonymous",
                                       chainResult.err>> >>
           /\ cfg.AnonOrgFound /\ chainResult.ok => AnonymousIdentityReturned

C2_Witness ==
    /\ ChainDone /\ BothEnabled /\ ~StubApplicable
    /\ retrieveToken(req, req.url).body = "badsig"
    /\ req.hdr = EmptyStr
    /\ chainResult.err = "jwt.invalid"

(***************************************************************************)
(* Claims about SyncOrgRolesHook (SpecSync)                                *)
(***************************************************************************)
MutatingOps ==
    {"UpdateOrgUser", "AddOrgUser", "RemoveOrgUser", "DeleteUserPermissions",
     "Update"}

Made(log, op) == {c \in log : c[1] = op}

Mutations(log) == {c \in log : c[1] \in MutatingOps}

\* the hook gets past its guards
Syncs(ident) ==
    /\ ident.SyncOrgRoles
    /\ IsNamespaceUser(ident.ID)
    /\ ParsesToUserID(ident.ID)
    /\ DOMAIN ident.OrgRoles # {}

SyncRan == hook = "SyncOrgRolesHook"

IsMember(mem, o) == mem[o] # NoRole

\* the organizations the run resolved by name
Resolved(log) == {c[2] : c \in {d \in Made(log, "GetByName") : d[3] = "ok"}}

\* the memberships whose removal the service rejected as last-admin
Retained(log) ==
    {c[2] : c \in {d \in Made(log, "RemoveOrgUser") : d[3] = "last_admin"}}

\* the asserted names whose lookup failed in this run
Unresolved(ident, log) ==
    {n \in DOMAIN ident.OrgRoles : <<"GetByName", IDOf(n), "fail">> \in log}

Min(S) == CHOOSE x \in S : \A y \in S : x <= y

\* C3: with empty OrgRoles, with SyncOrgRoles unset, outside the user
\* namespace or with an identifier that is no user id, the hook changes no
\* membership, deletes no permission, leaves the active organization alone
\* and returns nil.
C3_NoSyncNoMutation ==
    [][~Syncs(id) =>
         /\ hookRet' = "nil"
         /\ hookLog' = {}
         /\ members' = members
         /\ userOrg' = userOrg
         /\ id' = id]_vars

C3_Witness ==
    /\ SyncRan
    /\ id.ID = "user:1" /\ id.SyncOrgRoles /\ id.OrgRoles = <<>>
    /\ \A o \in Orgs : IsMember(members, o)
    /\ hookRet = "nil"

\* what C4 says of the memberships after the run, given those before it
C4_MembershipsAsClaimed(ident, before, after, log) ==
    \A o \in Orgs :
       IF NameOf(o) \in DOMAIN ident.OrgRoles
       THEN after[o] = ident.OrgRoles[NameOf(o)]
       ELSE \/ after[o] = NoRole
            \/ o \in Retained(log) /\ after[o] = before[o]

\* C4 (as claimed): after a run that returns nil for a user with asserted
\* roles, every organization named in OrgRoles has a membership with the
\* asserted role and no other membership is left but those whose removal
\* was rejected as last-admin.
C4_ExactMemberships ==
    [][(Syncs(id) /\ hookRet' = "nil") =>
         C4_MembershipsAsClaimed(id, members, members', hookLog')]_vars

\* C4 (amended): after a run that fetched the memberships and returned nil,
\* an organization named in OrgRoles has the asserted role when the user was
\* a member of it (updated if it differed, untouched if equal) or when its
\* lookup by name succeeded and the add was not answered org-not-found
\* (added); an asserted organization whose lookup failed gets no membership;
\* an organization not named in OrgRoles has no membership, unless its
\* removal was rejected as last-admin, which keeps the old role.
C4_MembershipsOfResolved ==
    [][(Syncs(id) /\ hookRet' = "nil"
          /\ <<"GetUserOrgList", UserID, "ok">> \in hookLog') =>
         \A o \in Orgs :
            LET asserted == NameOf(o) \in DOMAIN id.OrgRoles
                updated  == \E c \in Made(hookLog', "UpdateOrgUser") : c[2] = o
                added    == \E c \in Made(hookLog', "AddOrgUser") : c[2] = o
            IN
            /\ updated <=> /\ asserted /\ IsMember(members, o)
                           /\ members[o] # id.OrgRoles[NameOf(o)]
            /\ added <=> /\ asserted /\ ~IsMember(members, o)
                         /\ o \in Resolved(hookLog')
            /\ IF asserted /\ IsMember(members, o)
               THEN members'[o] = id.OrgRoles[NameOf(o)]
               ELSE IF asserted
               THEN IF o \in Resolved(hookLog')
                       /\ <<"AddOrgUser", o, "not_found">> \notin hookLog'
                    THEN members'[o] = id.OrgRoles[NameOf(o)]
                    ELSE members'[o] = NoRole
               ELSE IF o \in Retained(hookLog')
               THEN members'[o] = members[o] /\ IsMember(members, o)
               ELSE members'[o] = NoRole]_vars

C4_Witness ==
    /\ SyncRan /\ hookRet = "nil"
    /\ <<"RemoveOrgUser", 1, "last_admin">> \in hookLog
    /\ <<"AddOrgUser", 2, "ok">> \in hookLog
    /\ members[1] = "Admin"
    /\ members[2] = id.OrgRoles[NameOf(2)]

\* C5 (as claimed): when the active organization is not among the asserted
\* roles, after the run the persisted active organization and Identity.OrgID
\* are the smallest organization id among the user's resulting memberships
\* (stated here for the runs in which every lookup of an existing
\* organization and every add succeeded, and an asserted organization
\* was resolved).
C5_MinOfMemberships ==
    (/\ SyncRan /\ Syncs(id) /\ hookRet = "nil"
     /\ <<"GetUserOrgList", UserID, "ok">> \in hookLog
     /\ Unresolved(id, hookLog) \subseteq {UnknownName}
     /\ \A c \in Made(hookLog, "AddOrgUser") : c[3] = "ok"
     /\ Resolved(hookLog) # {}
     /\ id.OrgName \notin DOMAIN id.OrgRoles
     /\ \E o \in Orgs : IsMember(members, o)) =>
      /\ userOrg = Min({o \in Orgs : IsMember(members, o)})
      /\ id.OrgID = userOrg

\* C5 (amended): when the active organization is not among the asserted
\* roles, after a run that returns nil the persisted active organization
\* and Identity.OrgID are the smallest id among the asserted organizations
\* the run resolved by name, whether the user was already a member, was
\* added, or the add was answered org-not-found; memberships retained as
\* last-admin are no candidates, and when no asserted organization was
\* resolved the active organization stays as it was.
C5_MinOfResolved ==
    [][(Syncs(id) /\ hookRet' = "nil"
          /\ <<"GetUserOrgList", UserID, "ok">> \in hookLog'
          /\ id.OrgName \notin DOMAIN id.OrgRoles) =>
         IF Resolved(hookLog') # {}
         THEN /\ userOrg' = Min(Resolved(hookLog'))
              /\ id'.OrgID = Min(Resolved(hookLog'))
         ELSE /\ userOrg' = userOrg
              /\ id'.OrgID = id.OrgID]_vars

C5_Witness ==
    /\ SyncRan /\ hookRet = "nil"
    /\ id.OrgName = ""
    /\ Resolved(hookLog) = {1, 2}
    /\ <<"AddOrgUser", 2, "ok">> \in hookLog
    /\ <<"Update", 1, "ok">> \in hookLog
    /\ userOrg = 1 /\ id.OrgID = 1

\* C6: an asserted entry whose name the directory does not resolve adds
\* no membership, is no candidate for the active organization and causes
\* no error, and the remaining entries are still processed.
C6_UnresolvedIgnored ==
    SyncRan =>
      \A n \in Unresolved(id, hookLog) :
         /\ \A c \in Made(hookLog, "AddOrgUser") : c[2] # IDOf(n)
         /\ \A c \in Made(hookLog, "Update") : c[2] # IDOf(n)
         /\ hookRet # "nil" => hookLast[1] \in MutatingOps /\ hookLast[3] = "err"
         /\ hookRet \in {"nil", "err.remove", "err.user_update"} =>
              \A m \in DOMAIN id.OrgRoles :
                 \E c \in Made(hookLog, "GetByName") : c[2] = IDOf(m)

C6_Witness ==
    /\ SyncRan /\ hookRet = "nil"
    /\ DOMAIN id.OrgRoles = {UnknownName, NameOf(1), NameOf(2)}
    /\ Unresolved(id, hookLog) = {UnknownName, NameOf(1)}
    /\ ~IsMember(members, 1)
    /\ <<"AddOrgUser", 2, "ok">> \in hookLog
    /\ userOrg = 2

(***************************************************************************)
(* Claims about SetDefaultOrgHook (SpecDefaultOrg)                         *)
(***************************************************************************)
\* C8: the hook issues the update of the user's active organization to the
\* configured default exactly when a default is configured, the identity
\* is non-nil, the prior step did not fail, the identity is a user with a
\* parsable id, and the fetched membership list has the default
\* organization; the update, when it succeeds, persists the default; the
\* hook changes no membership and reports nothing to its caller.
C8_DefaultOrgOnlyForMembers ==
    [][LET updates == Made(hookLog', "Update")
           all == /\ LoginDefaultOrgId >= 1
                  /\ hook' = "SetDefaultOrgHook"
                  /\ IsNamespaceUser(id.ID)
                  /\ ParsesToUserID(id.ID)
                  /\ <<"GetUserOrgList", UserID, "ok">> \in hookLog'
                  /\ LoginDefaultOrgId \in Orgs
                  /\ IsMember(members, LoginDefaultOrgId)
       IN  /\ updates # {} <=> all
           /\ \A c \in updates : c[2] = LoginDefaultOrgId
           /\ userOrg' = IF <<"Update", LoginDefaultOrgId, "ok">> \in hookLog'
                         THEN LoginDefaultOrgId ELSE userOrg
           /\ members' = members
           /\ Mutations(hookLog') \subseteq updates
           /\ hookRet' = "void"]_vars

C8_Witness ==
    /\ hook = "SetDefaultOrgHook"
    /\ <<"Update", LoginDefaultOrgId, "ok">> \in hookLog
    /\ userOrg = LoginDefaultOrgId
    /\ id.OrgID # userOrg
    /\ \A o \in Orgs : IsMember(members, o)

(***************************************************************************)
(* Claims about repeated role syncs (SpecResync)                           *)
(***************************************************************************)
\* a run in which no service call failed; the lookup of a name that no
\* organization has and a last-admin rejection are answers, not failures
ErrorFree(log, ret) ==
    /\ ret = "nil"
    /\ \A c \in log :
          \/ c[3] = "ok"
          \/ c[3] = "last_admin"
          \/ c[1] = "GetByName" /\ c[2] = IDOf(UnknownName)

\* the memberships reconciliation aims at: the asserted role in every
\* organization named in OrgRoles, and otherwise only the memberships the
\* service will not let go (the user is the organization's only admin)
Reconciled(ident, mem) ==
    [o \in Orgs |->
       IF NameOf(o) \in DOMAIN ident.OrgRoles THEN ident.OrgRoles[NameOf(o)]
       ELSE IF mem[o] = "Admin" /\ o \in soleAdmin THEN "Admin"
       ELSE NoRole]

\* C7: whatever an earlier run did (completed, or aborted with an error
\* after some of its updates), a run in which no call fails ends in the
\* memberships an error-free run from the original state ends in: every
\* run leaves the reconciled memberships of its start state as they are,
\* and an error-free run reaches them; the run right after an error-free
\* one adds nothing, updates nothing and removes nothing but for new
\* attempts at the removals that were rejected as last-admin.
C7_IdempotentSelfCorrecting ==
    [][/\ Reconciled(id, members') = Reconciled(id, members)
       /\ ErrorFree(hookLog', hookRet') => members' = Reconciled(id, members)
       /\ (SyncRan /\ ErrorFree(hookLog, hookRet)) =>
            /\ Made(hookLog', "AddOrgUser") = {}
            /\ Made(hookLog', "UpdateOrgUser") = {}
            /\ \A c \in Made(hookLog', "RemoveOrgUser") :
                  /\ c[2] \in Retained(hookLog)
                  /\ c[3] # "ok"
            /\ members' = members]_vars

\* the run after a run that aborted on a failed add completes without error
\* and again rejects the removal of the last admin
C7_Witness ==
    /\ SyncRan /\ ErrorFree(hookLog, hookRet)
    /\ <<"UpdateOrgUser", 1, "ok">> \notin hookLog
    /\ <<"AddOrgUser", 2, "ok">> \notin hookLog
    /\ members = Reconciled(id, members)
    /\ \A o \in Orgs : IsMember(members, o)
    /\ Retained(hookLog) # {}

(***************************************************************************)
(* Claims about the role extraction (SpecRoles)                            *)
(***************************************************************************)
RegexMode == JWTAuth.RoleAttributePathSet /\ DOMAIN JWTAuth.RegexOrgRoleMapper # {}

StaticMode == JWTAuth.RoleAttributePathSet /\ DOMAIN JWTAuth.RegexOrgRoleMapper = {}

\* the entries of the setting as written, in their order
ConfiguredEntries ==
    LET entries == Fields(JWTAuth.input) IN
    [k \in DOMAIN entries |->
       LET i == LastIndex(entries[k], ":") IN
       [pattern |-> SubSeq(entries[k], 1, i - 1),
        role    |-> SubSeq(entries[k], i + 1, Len(entries[k]))]]

\* no pattern is configured twice
DistinctPatterns ==
    \A i, j \in DOMAIN ConfiguredEntries :
        ConfiguredEntries[i].pattern = ConfiguredEntries[j].pattern => i = j

\* the first match decides: the patterns in configured order ...
RECURSIVE InConfiguredOrder(_, _, _)
InConfiguredOrder(result, entries, jwtRole) ==
    IF entries = <<>> THEN result
    ELSE InConfiguredOrder(
            applyPattern(result, Head(entries).pattern, Head(entries).role,
                         jwtRole),
            Tail(entries), jwtRole)

\* ... and the role strings in claim order
RECURSIVE InClaimOrder(_, _)
InClaimOrder(result, rolesSlice) ==
    IF rolesSlice = <<>> THEN result
    ELSE InClaimOrder(InConfiguredOrder(result, ConfiguredEntries,
                                        Head(rolesSlice)),
                      Tail(rolesSlice))

\* C9: in regex mode the extracted organization roles are a function of
\* the role strings and the configured pattern list: every organization
\* gets the target role of its first match, role strings in claim order
\* and patterns in configured order, and so two authentications with the
\* same claims and configuration yield the same organization roles.
C9_FirstConfiguredMatchWins ==
    (RegexMode /\ DistinctPatterns) =>
        /\ \A k \in DOMAIN extracted :
              extracted[k].roles = InClaimOrder(EmptyMap, rolesClaim)
        /\ \A k, l \in DOMAIN extracted : extracted[k] = extracted[l]

\* two authentications with the same claims and configuration have given
\* one organization different roles
C9_Witness ==
    /\ RegexMode /\ DistinctPatterns
    /\ Len(extracted) >= 2
    /\ DOMAIN extracted[1].roles = DOMAIN extracted[2].roles
    /\ \E org \in DOMAIN extracted[1].roles :
          extracted[1].roles[org] # extracted[2].roles[org]

\* a map as its set of entries
Entries(m) == {<<k, m[k]>> : k \in DOMAIN m}

Parts(str) == Split(str, ":")

\* <scope>:<org>:<role> with the given role
Triple(str, role) == Len(Parts(str)) = 3 /\ Parts(str)[3] = role

Mapped(str) == Triple(str, <<"admin">>) \/ Triple(str, <<"viewer">>)

TargetRole(str) == IF Triple(str, <<"admin">>) THEN RoleEditor ELSE RoleViewer

\* C10 as stated: in static mode the result has an entry org -> Editor for
\* each role string of three parts ending in admin, an entry org -> Viewer
\* for each one ending in viewer, and nothing else; the Grafana-admin flag
\* is false.
C10_StaticEntryPerString ==
    StaticMode =>
        \A k \in DOMAIN extracted :
            /\ extracted[k].admin = FALSE
            /\ Entries(extracted[k].roles) =
                 {<<Parts(rolesClaim[n])[2], TargetRole(rolesClaim[n])>> :
                    n \in {m \in DOMAIN rolesClaim : Mapped(rolesClaim[m])}}

\* C10: in static mode the result has an entry exactly for the
\* organizations named by a role string of three parts ending in admin or
\* viewer; an organization's role is Editor or Viewer as the last such
\* string for it in the list ends in admin or viewer; strings of another
\* shape contribute nothing, and the Grafana-admin flag is false.
C10_StaticLastStringWins ==
    StaticMode =>
        \A k \in DOMAIN extracted :
            LET mapped == {n \in DOMAIN rolesClaim : Mapped(rolesClaim[n])}
                of(org) == {n \in mapped : Parts(rolesClaim[n])[2] = org}
                last(org) == CHOOSE n \in of(org) : \A m \in of(org) : m <= n
            IN  /\ extracted[k].admin = FALSE
                /\ DOMAIN extracted[k].roles =
                      {Parts(rolesClaim[n])[2] : n \in mapped}
                /\ \A org \in DOMAIN extracted[k].roles :
                      /\ extracted[k].roles[org] \in {RoleEditor, RoleViewer}
                      /\ extracted[k].roles[org] =
                            TargetRole(rolesClaim[last(org)])

\* an admin string and then a viewer string for the same organization
\* have been extracted as Viewer
C10_Witness ==
    /\ StaticMode
    /\ Len(rolesClaim) >= 2
    /\ Triple(rolesClaim[1], <<"admin">>)
    /\ Triple(rolesClaim[2], <<"viewer">>)
    /\ Parts(rolesClaim[1])[2] = Parts(rolesClaim[2])[2]
    /\ Len(extracted) >= 1
    /\ Entries(extracted[1].roles) = {<<Parts(rolesClaim[1])[2], RoleViewer>>}

(***************************************************************************)
(* Claims about the anonymous client (SpecAnonymous)                       *)
(***************************************************************************)
Resolving == anon.op = "ResolveIdentity"

Authenticating == anon.op = "Authenticate"

\* the outcome of the device tagging, "none" when it was not attempted
Tagged ==
    IF \E i \in DOMAIN anon.calls : anon.calls[i][1] = "TagDevice"
    THEN anon.calls[CHOOSE i \in DOMAIN anon.calls :
                       anon.calls[i][1] = "TagDevice"][2]
    ELSE "none"

\* C11: ResolveIdentity returns an identity exactly when the organization
\* id is the configured anonymous organization's and the namespaced id is
\* the anonymous one; it fails with the lookup error when the organization
\* is not found, else with invalid-org when the organization id differs
\* (whatever the namespaced id), else with invalid-id; the identity it
\* returns is the one Authenticate returns under the same configuration.
C11_ResolveIdentity ==
    Resolving =>
      LET found == cfg.AnonOrgFound
          orgOK == anon.orgID = AnonOrg.ID
          idOK  == anon.namespaceID = AnonymousNamespaceID
      IN  /\ anon.res.ok <=> (found /\ orgOK /\ idOK)
          /\ ~found => anon.res.err = "org.not_found"
          /\ (found /\ ~orgOK) => anon.res.err = "anonymous.invalid-org"
          /\ (found /\ orgOK /\ ~idOK) => anon.res.err = "anonymous.invalid-id"
          /\ anon.res.ok =>
               /\ \E tag \in TagOutcomes :
                     Anonymous_Authenticate(req, rawQuery, tag).res.ok
               /\ \A tag \in TagOutcomes :
                     LET a == Anonymous_Authenticate(req, rawQuery, tag).res
                     IN  a.ok => a.identity = anon.res.identity

\* both arguments are wrong and the organization is the one reported
C11_Witness ==
    /\ Resolving
    /\ cfg.AnonOrgFound
    /\ anon.orgID = NumOrgs /\ anon.orgID # AnonOrg.ID
    /\ anon.namespaceID = "user:1"
    /\ anon.res.err = "anonymous.invalid-org"

\* C12: Authenticate fails exactly when the configured organization is not
\* found (then no device is tagged and no identity is produced) or when
\* the device tagging answers device-limit-reached; any other tagging
\* failure is ignored, and the identity returned is bound to the configured
\* organization, with the configured role for it and SyncPermissions set.
C12_AuthenticateFailures ==
    Authenticating =>
      /\ ~anon.res.ok <=> (~cfg.AnonOrgFound \/ Tagged = "limit")
      /\ ~cfg.AnonOrgFound =>
           /\ Tagged = "none"
           /\ anon.res.err = "org.not_found"
           /\ anon.res.identity = Failure("org.not_found").identity
      /\ cfg.AnonOrgFound =>
           /\ Tagged \in TagOutcomes
           /\ Tagged = "limit" => anon.res.err = "anonymous.device_limit"
      /\ anon.res.ok =>
           /\ anon.res.identity.ID = AnonymousNamespaceID
           /\ anon.res.identity.OrgID = AnonOrg.ID
           /\ anon.res.identity.OrgName = AnonOrg.Name
           /\ anon.res.identity.OrgRoles = <<AnonOrg.Name, cfg.AnonymousOrgRole>>
           /\ anon.res.identity.SyncPermissions

\* a tagging failure other than the device limit, and an identity all the same
C12_Witness ==
    /\ Authenticating
    /\ Tagged = "other"
    /\ anon.res.ok
    /\ cfg.AnonymousOrgRole = "Editor"
    /\ anon.res.identity.OrgRoles = <<AnonOrg.Name, "Editor">>

(***************************************************************************)
(* Claims about the phases of SyncOrgRolesHook (SpecSync)                  *)
(***************************************************************************)
\* the memberships the run marks for removal: not among the asserted roles
ToRemove(ident, mem) ==
    {o \in Orgs : IsMember(mem, o) /\ NameOf(o) \notin DOMAIN ident.OrgRoles}

\* the memberships whose removal the service carried out
Removed(log) ==
    {c[2] : c \in {d \in Made(log, "RemoveOrgUser") : d[3] = "ok"}}

\* the run got to the removal phase and through it
RemovalsDone(log, ret) ==
    /\ <<"GetUserOrgList", UserID, "ok">> \in log
    /\ ret \in {"nil", "err.user_update"}

\* C13: a removal rejected as last-admin keeps the membership, does not
\* stop the remaining removals and is not returned; any other removal
\* failure is returned at once, nothing is called after it; permissions
\* are deleted exactly for the memberships whose removal succeeded, and a
\* failure of that deletion does not fail the hook.
C13_RemovalPhase ==
    [][Syncs(id) =>
         /\ \A c \in Made(hookLog', "RemoveOrgUser") :
               c[2] \in ToRemove(id, members)
         /\ \A o \in Retained(hookLog') :
               /\ members'[o] = members[o]
               /\ <<"RemoveOrgUser", o, "ok">> \notin hookLog'
               /\ <<"RemoveOrgUser", o, "err">> \notin hookLog'
         /\ \A o \in Removed(hookLog') : members'[o] = NoRole
         /\ RemovalsDone(hookLog', hookRet') =>
               Retained(hookLog') \cup Removed(hookLog') = ToRemove(id, members)
         /\ hookRet' = "err.remove" <=>
               \E c \in Made(hookLog', "RemoveOrgUser") : c[3] = "err"
         /\ \A c \in Made(hookLog', "RemoveOrgUser") :
               c[3] = "err" => hookLast' = c
         /\ {c[2] : c \in Made(hookLog', "DeleteUserPermissions")}
               = Removed(hookLog')
         /\ hookLast'[1] = "DeleteUserPermissions" => hookRet' = "nil"]_vars

\* a last-admin rejection, then a removal whose permission deletion fails,
\* and the hook returns nil
C13_Witness ==
    /\ SyncRan /\ hookRet = "nil"
    /\ <<"RemoveOrgUser", 1, "last_admin">> \in hookLog
    /\ <<"RemoveOrgUser", 2, "ok">> \in hookLog
    /\ hookLast = <<"DeleteUserPermissions", 2, "err">>
    /\ members[1] = "Admin" /\ members[2] = NoRole

\* the calls that come after the updates and the adds
AfterAdds == {"RemoveOrgUser", "DeleteUserPermissions", "Update"}

\* what C14 and its amendment say of an aborted run and of a failed fetch
C14_AbortsAndFetch(log, last, ret, memBefore, memAfter, orgBefore, orgAfter) ==
    /\ ret = "err.update" =>
          /\ last[1] = "UpdateOrgUser" /\ last[3] = "err"
          /\ Made(log, "AddOrgUser") = {}
          /\ \A c \in log : c[1] \notin AfterAdds
    /\ ret = "err.add" =>
          /\ last[1] = "AddOrgUser" /\ last[3] = "err"
          /\ \A c \in log : c[1] \notin AfterAdds
    /\ <<"GetUserOrgList", UserID, "err">> \in log =>
          /\ ret = "nil"
          /\ Mutations(log) = {}
          /\ memAfter = memBefore /\ orgAfter = orgBefore

\* C14 (as claimed): every failure of a role update or of an add aborts the
\* hook, which returns that error and performs no later add, removal or
\* active-organization update; a failed fetch of the memberships makes the
\* hook return nil without any mutation.
C14_EveryFailureAborts ==
    [][Syncs(id) =>
         /\ C14_AbortsAndFetch(hookLog', hookLast', hookRet', members,
                               members', userOrg, userOrg')
         /\ \A c \in Made(hookLog', "UpdateOrgUser") :
               c[3] # "ok" => hookLast' = c /\ hookRet' = "err.update"
         /\ \A c \in Made(hookLog', "AddOrgUser") :
               c[3] # "ok" => hookLast' = c /\ hookRet' = "err.add"]_vars

\* C14 (amended): every failure of a role update, and every failure of an
\* add other than org-not-found, aborts the hook, which returns that error
\* and performs no later add, removal or active-organization update; an add
\* answered org-not-found is ignored, the run goes on and the organization
\* gets no membership; a failed fetch of the memberships makes the hook
\* return nil without any mutation.
C14_FailureAbortsButNotFound ==
    [][Syncs(id) =>
         /\ C14_AbortsAndFetch(hookLog', hookLast', hookRet', members,
                               members', userOrg, userOrg')
         /\ \A c \in Made(hookLog', "UpdateOrgUser") :
               c[3] # "ok" => hookLast' = c /\ hookRet' = "err.update"
         /\ \A c \in Made(hookLog', "AddOrgUser") :
               /\ c[3] = "err" => hookLast' = c /\ hookRet' = "err.add"
               /\ c[3] = "not_found" =>
                     /\ hookRet' # "err.add" \/ hookLast' # c
                     /\ members'[c[2]] = NoRole]_vars

\* an add answered org-not-found, then another add, and the hook returns nil
C14_Witness ==
    /\ SyncRan /\ hookRet = "nil"
    /\ \E o, p \in Orgs :
          /\ <<"AddOrgUser", o, "not_found">> \in hookLog
          /\ <<"AddOrgUser", p, "ok">> \in hookLog
          /\ members[o] = NoRole /\ members[p] # NoRole

\* the run recomputed the active organization: it called userService.Update
Recomputed(log) == Made(log, "Update") # {}

\* C15: when the hook recomputes the active organization, Identity.OrgID
\* and the persisted active organization are equal when the hook returns,
\* also when persisting fails; when it does not recompute it, Identity.OrgID
\* is left as it was.
C15_OrgIDMatchesPersisted ==
    [][Syncs(id) =>
         IF Recomputed(hookLog')
         THEN id'.OrgID = userOrg'
         ELSE id'.OrgID = id.OrgID]_vars

\* persisting the recomputed organization failed: Identity.OrgID names it,
\* the persisted active organization is the old one
C15_Witness ==
    /\ SyncRan /\ hookRet = "err.user_update"
    /\ hookLast = <<"Update", 2, "err">>
    /\ id.OrgID = 2
    /\ userOrg = 1

\* C17: a user who is a member of the active organization before the hook
\* is, after a run that returns nil, still a member of the active
\* organization, persisted and in Identity.OrgID, whatever OrgRoles asserts;
\* and a user who had memberships is not left with none (stated here for
\* the runs in which no service call failed).
C17_ActiveOrgStaysMembership ==
    [][(/\ Syncs(id) /\ hookRet' = "nil"
        /\ ErrorFree(hookLog', hookRet')
        /\ userOrg \in Orgs /\ IsMember(members, userOrg)) =>
         /\ userOrg' \in Orgs /\ IsMember(members', userOrg')
         /\ id'.OrgID = userOrg'
         /\ \E o \in Orgs : IsMember(members', o)]_vars

\* only names unknown to the directory are asserted: every membership has
\* been removed, and the active organization is one the user has left
C17_Witness ==
    /\ SyncRan /\ hookRet = "nil"
    /\ DOMAIN id.OrgRoles = {UnknownName}
    /\ userOrg = 1 /\ id.OrgID = 1
    /\ <<"RemoveOrgUser", 1, "ok">> \in hookLog
    /\ \A o \in Orgs : ~IsMember(members, o)

\* C18: the hook returns, with nil or with an error, whatever its services
\* answer; when the lookup by id of a membership's organization fails it
\* does not crash, and the membership is neither removed nor changed.
C18_AlwaysReturns ==
    [][/\ hookRet' # "panic"
       /\ \A c \in Made(hookLog', "GetByID") :
             c[3] = "fail" => members'[c[2]] = members[c[2]]]_vars

\* the lookup by id of a membership's organization failed, and the hook
\* dereferenced the missing organization
C18_Witness ==
    /\ SyncRan
    /\ hookLast = <<"GetByID", 1, "fail">>
    /\ hookRet = "panic"

(***************************************************************************)
(* Claims about the token in the URL                                       *)
(***************************************************************************)
\* the token came in the URL: the configured header gave none, URL login is
\* allowed and the first auth_token parameter of the query is not empty
TokenFromURL ==
    /\ HeaderGet(req) = EmptyStr
    /\ cfg.URLLogin
    /\ QueryGet(req.url) # EmptyStr

\* the raw query has a pair for the token
CarriesToken(raw) == \E i \in DOMAIN raw : raw[i].key = authQueryParamName

OtherKeys == {"a", "b"}

\* C16: when the token was supplied through the auth_token query parameter
\* with URL login allowed, then once JWT.Authenticate has returned -- with
\* an identity, with the invalid-token error or with the missing-claim
\* error -- the request URL has no auth_token parameter, it had none when
\* the verifier was called, and every other parameter the query carried is
\* still there with the same values in the same order.
C16_TokenStripped ==
    (ChainDone /\ TokenFromURL) =>
        /\ chainResult.err \in {"nil", "jwt.invalid", "jwt.missing_claim"}
        /\ ~CarriesToken(rawQuery)
        /\ \A i \in DOMAIN calls :
             calls[i].op = "Verify" => ~CarriesToken(calls[i].url)
        /\ \A k \in OtherKeys : URL_Query(rawQuery)[k] = URL_Query(req.url)[k]

\* a token that fails verification came in the URL between two other
\* parameters, and is gone after the call; the others are re-encoded
C16_Witness ==
    /\ ChainDone /\ TokenFromURL
    /\ chainResult.err = "jwt.invalid"
    /\ req.url = <<Param("b", Str(FALSE, "1")),
                   Param(authQueryParamName, Str(FALSE, "badsig")),
                   Param("a", Str(FALSE, "x%20y"))>>
    /\ rawQuery = <<Param("a", Str(FALSE, "x+y")), Param("b", Str(FALSE, "1"))>>

(***************************************************************************)
(* Claims about the two hooks of one request                               *)
(***************************************************************************)
\* the run persisted an active organization
Persisted(log) == \E c \in Made(log, "Update") : c[3] = "ok"

\* the step in which the default-org sync runs, after the role sync
DefaultOrgStep ==
    /\ hook = "SyncOrgRolesHook"
    /\ hook' \in {"SetDefaultOrgHook", "SetDefaultOrgHook(err)"}

\* C19 as stated: when the role sync and then the default-org sync have run
\* and either of them persisted an active organization, Identity.OrgID
\* equals the persisted active organization.
C19_OrgIDEqualsPersisted ==
    [][(DefaultOrgStep /\ (Persisted(hookLog) \/ Persisted(hookLog'))) =>
         id'.OrgID = userOrg']_vars

\* C19: the default-org sync never changes Identity.OrgID.  When it
\* persists, the persisted active organization is the configured default
\* organization, whatever Identity.OrgID is; when it does not, the persisted
\* active organization is left as it was, and equals Identity.OrgID if the
\* role sync persisted one.
C19_DefaultOrgLeavesOrgID ==
    [][DefaultOrgStep =>
         /\ id'.OrgID = id.OrgID
         /\ IF Persisted(hookLog')
            THEN userOrg' = LoginDefaultOrgId
            ELSE /\ userOrg' = userOrg
                 /\ Persisted(hookLog) => id'.OrgID = userOrg']_vars

\* the role sync made organization 1 the active one, the membership in
\* organization 2 stayed (last admin), and the default-org sync persisted
\* organization 2: Identity.OrgID is 1, the persisted one 2
C19_Witness ==
    /\ hook = "SetDefaultOrgHook"
    /\ hookLast = <<"Update", 2, "ok">>
    /\ id.OrgName = NameOf(2) /\ id.OrgID = 1
    /\ userOrg = 2 /\ LoginDefaultOrgId = 2
    /\ 2 \in soleAdmin

====
